---- MODULE Spec2Model ----
(***************************************************************************)
(* The fetch-and-resume pipeline of src/src/ingestion/fetch_raw_round.py:  *)
(* a script that probes the API, resolves the fixtures of a round, folds   *)
(* the manifest log into a resume map and then fetches the players of each *)
(* fixture with a bounded number of attempts, a minimum spacing between    *)
(* the per-fixture requests, a payload file per fixture and one manifest   *)
(* line per recorded attempt.                                              *)
(*                                                                         *)
(* Time is counted in ticks of half a second, so that the default          *)
(* MIN_INTERVAL_SECONDS of 6.5 s is the whole number 13.  The script only  *)
(* ever looks at the difference time.time() - last_request_ts, so the      *)
(* model keeps that difference (elapsed) instead of the two absolute       *)
(* times; a difference of MIN_INTERVAL_SECONDS or more is kept as          *)
(* MIN_INTERVAL_SECONDS, which the script cannot tell apart.  Requests and *)
(* file operations take no time: only the two sleeps let time pass, which  *)
(* is the closest the script's requests can come to each other.            *)
(***************************************************************************)
EXTENDS Integers, Sequences, FiniteSets, TLC

\* ---------------------------------------------------------------- bounds
NumFixtures == 2
MaxLines == 3
MaxAttemptNo == 6
MaxPages == 2
MaxFetched == 4

\* ------------------------------------------------------ program constants
MAX_ATTEMPTS_PER_FIXTURE == 3
MIN_INTERVAL_SECONDS == 13

Procs == {1, 2}
FixtureIds == 1001..(1000 + NumFixtures)

NoTs == -1
NoFile == <<0>>
NoRec == [kind |-> "none"]
NoHeader == <<"None">>
NoResponse == [status_code |-> 0, body |-> "none", retry_after |-> NoHeader]

Min(a, b) == IF a < b THEN a ELSE b

RECURSIVE Pow2(_)
Pow2(n) == IF n <= 0 THEN 1 ELSE 2 * Pow2(n - 1)

\* ------------------------------------------------------------ manifest
\* One line of manifest.jsonl.  "rec" is a JSON object with the keys the
\* script writes, "nokey" a JSON object without fixture_id, "garbage" a
\* line that is not JSON.
RecLine(f, s, a) == [kind |-> "rec", fixture_id |-> f, status |-> s, attempts |-> a]
NoKeyLine(s, a) == [kind |-> "nokey", status |-> s, attempts |-> a]
GarbageLine == [kind |-> "garbage"]

Lines ==
    {GarbageLine}
    \cup {NoKeyLine(s, a) : s \in {"ok", "error"}, a \in {1}}
    \cup {RecLine(f, s, a) : f \in FixtureIds, s \in {"ok", "error"},
                             a \in 1..MAX_ATTEMPTS_PER_FIXTURE}

\* json.loads(line) followed by rec["fixture_id"]: TRUE when neither raises.
Parses(line) == line.kind = "rec"

\* load_done_map applied to an already-read prefix: the dictionary after
\* the loop body has run over every line of log, in order.
load_done_map_keep_first(log) ==
    [f \in FixtureIds |->
        IF \E i \in 1..Len(log) : Parses(log[i]) /\ log[i].fixture_id = f
        THEN log[CHOOSE i \in 1..Len(log) :
                    /\ Parses(log[i]) /\ log[i].fixture_id = f
                    /\ \A j \in 1..(i - 1) : ~(Parses(log[j]) /\ log[j].fixture_id = f)]
        ELSE NoRec]

RECURSIVE load_done_map(_)
load_done_map(log) ==
    IF log = <<>> THEN [f \in FixtureIds |-> NoRec]
    ELSE LET done == load_done_map(SubSeq(log, 1, Len(log) - 1))
             line == log[Len(log)]
         IN  IF Parses(line) THEN [done EXCEPT ![line.fixture_id] = line]
             ELSE done

\* ------------------------------------------------------------ rate limit
Age(t, d) == IF t = NoTs THEN NoTs ELSE Min(t + d, MIN_INTERVAL_SECONDS)

\* The time sleep_for_rate_limit sleeps, given time.time() - last_ts
\* (NoTs for last_ts is None).
sleep_for_rate_limit_no_wait(el) == 0

sleep_for_rate_limit(el) ==
    IF el = NoTs THEN 0
    ELSE IF el < MIN_INTERVAL_SECONDS THEN MIN_INTERVAL_SECONDS - el
    ELSE 0

\* ------------------------------------------------------------ responses
\* A header value is the sequence of its characters.  str.isdigit is true of
\* a non-empty string of digits, int() reads it in base ten.
Digits == <<"0", "1", "2", "3", "4", "5", "6", "7", "8", "9">>
DigitValue == [c \in {Digits[i] : i \in 1..10} |-> (CHOOSE i \in 1..10 : Digits[i] = c) - 1]
isdigit(s) == s # <<>> /\ \A i \in 1..Len(s) : s[i] \in DOMAIN DigitValue

RECURSIVE int(_)
int(s) == IF s = <<>> THEN 0 ELSE 10 * int(SubSeq(s, 1, Len(s) - 1)) + DigitValue[s[Len(s)]]

RetryAfterHeaders == {NoHeader, <<"0">>, <<"s", "o", "o", "n">>}

Response(c, b, h) == [status_code |-> c, body |-> b, retry_after |-> h]
Responses ==
    {Response(200, "dict", NoHeader), Response(200, "none", NoHeader),
     Response(500, "dict", NoHeader)}
    \cup {Response(429, "dict", h) : h \in RetryAfterHeaders}

Outcome(resp) ==
    IF resp.status_code = 429 THEN "RateLimited"
    ELSE IF resp.status_code # 200 \/ resp.body # "dict" THEN "Failed"
    ELSE "Success"

Seconds(n) == 2 * n

\* The wait of the 429 branch, in ticks.
Wait_uncapped(resp, att) ==
    IF resp.retry_after # NoHeader /\ resp.retry_after # <<>> /\ isdigit(resp.retry_after)
    THEN Seconds(int(resp.retry_after))
    ELSE Seconds(Pow2(att) * 2)

Wait(resp, att) ==
    IF resp.retry_after # NoHeader /\ resp.retry_after # <<>> /\ isdigit(resp.retry_after)
    THEN Seconds(int(resp.retry_after))
    ELSE Seconds(Min(60, Pow2(att) * 2))

\* ------------------------------------------------------------ paged source
\* What the API holds for a request: its pages of items, and whether its
\* answers carry the paging object.  The answer to page n has the items of
\* that page, none beyond the last page, and paging.current = n with
\* paging.total the number of pages (1 when there is none).
NoPaging == [current |-> 0, total |-> 0]
NoSource == [pages |-> <<>>, paging |-> FALSE]

Answer(src, n) ==
    [response |-> IF n \in 1..Len(src.pages) THEN src.pages[n] ELSE <<>>,
     paging |-> IF src.paging
                THEN [current |-> n, total |-> IF src.pages = <<>> THEN 1 ELSE Len(src.pages)]
                ELSE NoPaging]

\* paging.get("current", 1) and paging.get("total", 1)
PagingGet(paging, key) == IF paging = NoPaging THEN 1 ELSE paging[key]

\* The positions of log holding a record of fixture f.
RecordsIn(log, f) == {i \in 1..Len(log) : Parses(log[i]) /\ log[i].fixture_id = f}

VARIABLES
    manifest,         \* RUN_DIR/manifest.jsonl: the sequence of its lines
    payload,          \* FIX_DIR/players_<id>.json: "absent", "partial" or "full"
    fixtures_path,    \* RUN_DIR/fixtures.json: NoFile or the fixture ids it lists
    pc,               \* per process: the place the script has reached
    fixtures,         \* per process: the work list
    done_map,         \* per process: the resume map
    idx,              \* per process: position of the for loop in fixtures
    attempts,         \* per process: attempts of the current fixture
    elapsed,          \* per process: time.time() - last_request_ts, NoTs for None
    r,                \* per process: the response being handled, if any
    ok_count, skip_count, err_count,
    upload_error,     \* per process: the last storage upload raised
    fetch_log,        \* per process and fixture: outcomes of this run's fetches
    setup_log,        \* per process: paths of this run's other API requests
    since_request,    \* per process: age of the run's previous API request
    last_gap,         \* per process: since_request when the last fetch was sent
    wait,             \* per process: the wait of the 429 just handled, NoTs if none
    payloads0,        \* per process: the payloads present when the run started
    manifest0,        \* per process: Len(manifest) when the run started
    payloads_before,  \* payloads present when the previous completed run ended
    fetched,          \* per fixture: the requests sent for it in all runs so far,
                      \* counted up to MaxFetched
    env,              \* per process: the credentials set in its environment
    source,           \* the pages the API holds for the request being paged
    reader,           \* the function that is reading the pages of source
    page,             \* the reader's page counter
    out,              \* the items the reader has collected
    pages_asked       \* the page numbers the reader has requested, in order

files == <<manifest, payload, fixtures_path>>
counters == <<ok_count, skip_count, err_count>>
clocks == <<elapsed, since_request, last_gap, wait>>
history == <<fetch_log, setup_log, payloads0, manifest0, payloads_before, fetched>>
paged == <<source, reader, page, out, pages_asked>>
vars == <<files, pc, fixtures, done_map, idx, attempts, r, counters,
          upload_error, clocks, history, env, paged>>

\* The environment variables the script cannot run without.
Credentials == {"API_FOOTBALL_KEY", "SUPABASE_URL", "SUPABASE_SERVICE_ROLE"}


\* The fixture lists the API can answer /fixtures with: the round has the
\* fixtures 1001, 1002, ... in this order, or only the first few of them.
WorkLists == {[i \in 1..n |-> 1000 + i] : n \in 0..NumFixtures}

Persisted == {f \in FixtureIds : payload[f] # "absent"}

\* out_path.exists()
exists_complete(f) == payload[f] = "full"

exists(f) == payload[f] # "absent"

\* The value every per-run variable of process p has before the script runs.
Fresh(p, start) ==
    /\ pc' = [pc EXCEPT ![p] = start]
    /\ fixtures' = [fixtures EXCEPT ![p] = <<>>]
    /\ done_map' = [done_map EXCEPT ![p] = [f \in FixtureIds |-> NoRec]]
    /\ idx' = [idx EXCEPT ![p] = 0]
    /\ attempts' = [attempts EXCEPT ![p] = 0]
    /\ r' = [r EXCEPT ![p] = NoResponse]
    /\ ok_count' = [ok_count EXCEPT ![p] = 0]
    /\ skip_count' = [skip_count EXCEPT ![p] = 0]
    /\ err_count' = [err_count EXCEPT ![p] = 0]
    /\ upload_error' = [upload_error EXCEPT ![p] = FALSE]
    /\ elapsed' = [elapsed EXCEPT ![p] = NoTs]
    /\ since_request' = [since_request EXCEPT ![p] = NoTs]
    /\ last_gap' = [last_gap EXCEPT ![p] = NoTs]
    /\ wait' = [wait EXCEPT ![p] = NoTs]
    /\ fetch_log' = [fetch_log EXCEPT ![p] = [f \in FixtureIds |-> <<>>]]
    /\ setup_log' = [setup_log EXCEPT ![p] = <<>>]
    /\ payloads0' = [payloads0 EXCEPT ![p] = Persisted]
    /\ manifest0' = [manifest0 EXCEPT ![p] = Len(manifest)]

\* No reader is paging.
NotPaging ==
    /\ source = NoSource
    /\ reader = "none"
    /\ page = 0
    /\ out = <<>>
    /\ pages_asked = <<>>

Init ==
    /\ manifest = <<>>
    /\ payload = [f \in FixtureIds |-> "absent"]
    /\ fixtures_path = NoFile
    /\ pc = [p \in Procs |-> IF p = 1 THEN "start" ELSE "off"]
    /\ fixtures = [p \in Procs |-> <<>>]
    /\ done_map = [p \in Procs |-> [f \in FixtureIds |-> NoRec]]
    /\ idx = [p \in Procs |-> 0]
    /\ attempts = [p \in Procs |-> 0]
    /\ r = [p \in Procs |-> NoResponse]
    /\ ok_count = [p \in Procs |-> 0]
    /\ skip_count = [p \in Procs |-> 0]
    /\ err_count = [p \in Procs |-> 0]
    /\ upload_error = [p \in Procs |-> FALSE]
    /\ elapsed = [p \in Procs |-> NoTs]
    /\ since_request = [p \in Procs |-> NoTs]
    /\ last_gap = [p \in Procs |-> NoTs]
    /\ wait = [p \in Procs |-> NoTs]
    /\ fetch_log = [p \in Procs |-> [f \in FixtureIds |-> <<>>]]
    /\ setup_log = [p \in Procs |-> <<>>]
    /\ payloads0 = [p \in Procs |-> {}]
    /\ manifest0 = [p \in Procs |-> 0]
    /\ payloads_before = {0}
    /\ fetched = [f \in FixtureIds |-> 0]
    /\ \E e \in SUBSET Credentials : env = [p \in Procs |-> IF p = 1 THEN e ELSE Credentials]
    /\ NotPaging

\* sb_upload_json / sb_upload_bytes inside try/except: the upload succeeds or
\* raises, and the except branch only prints.  upload_error tells that the
\* step just taken printed such a warning.
Upload(p) == \E raised \in BOOLEAN : upload_error' = [upload_error EXCEPT ![p] = raised]

NoUpload(p) == upload_error' = [upload_error EXCEPT ![p] = FALSE]

\* Lines 22-27: the credentials whose absence ends the run.
Required_api_key_only == {"API_FOOTBALL_KEY"}

Required == {"API_FOOTBALL_KEY", "SUPABASE_URL", "SUPABASE_SERVICE_ROLE"}

\* Lines 8-37: the environment is read; a missing credential ends the run.
CheckConfig(p) ==
    /\ pc[p] = "start"
    /\ pc' = [pc EXCEPT ![p] = IF Required \subseteq env[p] THEN "status" ELSE "exit1"]
    /\ UNCHANGED <<files, fixtures, done_map, idx, attempts, r, counters, clocks, history, env>>
    /\ NoUpload(p)
    /\ UNCHANGED paged

\* Lines 122-131: the status probe, written and mirrored when it answers.
StatusProbe(p) ==
    /\ pc[p] = "status"
    /\ \E answered \in BOOLEAN : IF answered THEN Upload(p) ELSE NoUpload(p)
    /\ since_request' = [since_request EXCEPT ![p] = 0]
    /\ setup_log' = [setup_log EXCEPT ![p] = Append(@, "/status")]
    /\ pc' = [pc EXCEPT ![p] = "fixtures"]
    /\ UNCHANGED <<files, fixtures, done_map, idx, attempts, r, counters, elapsed,
                   last_gap, wait, fetch_log, manifest0, payloads0, payloads_before, fetched>>
    /\ UNCHANGED env
    /\ UNCHANGED paged

\* Lines 149-157: the work list is taken; an empty one ends the run after a
\* /fixtures/rounds request.  asked is the requests made to get the list.
TakeFixtures(p, list, asked) ==
    /\ fixtures' = [fixtures EXCEPT ![p] = list]
    /\ IF list = <<>>
       THEN /\ setup_log' = [setup_log EXCEPT ![p] = @ \o asked \o <<"/fixtures/rounds">>]
            /\ since_request' = [since_request EXCEPT ![p] = 0]
            /\ Upload(p)
            /\ pc' = [pc EXCEPT ![p] = "exit0"]
       ELSE /\ setup_log' = [setup_log EXCEPT ![p] = @ \o asked]
            /\ since_request' = [since_request EXCEPT ![p] = IF asked = <<>> THEN @ ELSE 0]
            /\ IF asked = <<>> THEN NoUpload(p) ELSE Upload(p)
            /\ pc' = [pc EXCEPT ![p] = "resume"]

\* Line 135: fixtures_path.exists()
Cached_never(path) == FALSE

Cached(path) == path # NoFile

\* Line 139: the test that ends the run on the answer to /fixtures.
FixturesFailed_status_only(resp) == resp.status_code # 200

FixturesFailed(resp) == resp.status_code # 200 \/ resp.body # "dict"

\* Lines 133-157: the work list, from fixtures.json when it exists and from
\* one /fixtures request otherwise, which ends the run when it fails.
FixturesForRound(p) ==
    /\ pc[p] = "fixtures"
    /\ \/ /\ Cached(fixtures_path)
          /\ TakeFixtures(p, fixtures_path, <<>>)
          /\ UNCHANGED fixtures_path
          /\ UNCHANGED r
       \/ /\ ~Cached(fixtures_path)
          /\ \E resp \in Responses :
                /\ FixturesFailed(resp)
                /\ r' = [r EXCEPT ![p] = resp]
          /\ setup_log' = [setup_log EXCEPT ![p] = Append(@, "/fixtures")]
          /\ since_request' = [since_request EXCEPT ![p] = 0]
          /\ NoUpload(p)
          /\ pc' = [pc EXCEPT ![p] = "exit1"]
          /\ UNCHANGED <<fixtures_path, fixtures>>
       \/ /\ ~Cached(fixtures_path)
          /\ \E resp \in Responses :
                /\ ~FixturesFailed(resp)
                /\ r' = [r EXCEPT ![p] = resp]
          /\ \E list \in WorkLists :
                /\ fixtures_path' = list
                /\ TakeFixtures(p, list, <<"/fixtures">>)
    /\ UNCHANGED <<manifest, payload, done_map, idx, attempts, counters, elapsed,
                   last_gap, wait, fetch_log, manifest0, payloads0, payloads_before, fetched>>
    /\ UNCHANGED env
    /\ UNCHANGED paged

\* Lines 159-165: the resume map, the limiter's timestamp and the counters.
ResumeMap(p) ==
    /\ pc[p] = "resume"
    /\ done_map' = [done_map EXCEPT ![p] = load_done_map(manifest)]
    /\ elapsed' = [elapsed EXCEPT ![p] = NoTs]
    /\ ok_count' = [ok_count EXCEPT ![p] = 0]
    /\ skip_count' = [skip_count EXCEPT ![p] = 0]
    /\ err_count' = [err_count EXCEPT ![p] = 0]
    /\ idx' = [idx EXCEPT ![p] = 1]
    /\ pc' = [pc EXCEPT ![p] = "for"]
    /\ UNCHANGED <<files, fixtures, attempts, r,
                   since_request, last_gap, wait, history>>
    /\ NoUpload(p)
    /\ UNCHANGED env
    /\ UNCHANGED paged

\* append_manifest(**rec): one line more in manifest.jsonl.
append_manifest_drop(log, f, s, a) == log

append_manifest(log, f, s, a) == Append(log, RecLine(f, s, a))

\* Line 173: the skip test on the resume map's record and the payload file.
Skip_never(prev, present) == FALSE

Skip_record_only(prev, present) == prev # NoRec /\ prev.status = "ok"

Skip(prev, present) == (prev # NoRec /\ prev.status = "ok") \/ present

\* Line 177: attempts already recorded for the fixture.
PriorAttempts_per_run(prev) == 0

PriorAttempts(prev) == IF prev = NoRec THEN 0 ELSE prev.attempts

\* Lines 167-177: the next fixture of the work list is skipped or entered.
ForFixture(p) ==
    /\ pc[p] = "for"
    /\ idx[p] <= Len(fixtures[p])
    /\ LET fixture_id == fixtures[p][idx[p]]
           prev == done_map[p][fixture_id]
       IN  IF Skip(prev, exists(fixture_id))
           THEN /\ skip_count' = [skip_count EXCEPT ![p] = @ + 1]
                /\ idx' = [idx EXCEPT ![p] = @ + 1]
                /\ UNCHANGED <<pc, attempts>>
           ELSE /\ attempts' = [attempts EXCEPT ![p] = PriorAttempts(prev)]
                /\ pc' = [pc EXCEPT ![p] = "while"]
                /\ UNCHANGED <<skip_count, idx>>
    /\ UNCHANGED <<files, fixtures, done_map, r, ok_count, err_count, clocks, history>>
    /\ NoUpload(p)
    /\ UNCHANGED env
    /\ UNCHANGED paged

\* Line 179: the loop test.
MayAttempt_one_more(att) == att <= MAX_ATTEMPTS_PER_FIXTURE

MayAttempt(att) == att < MAX_ATTEMPTS_PER_FIXTURE

\* Lines 179-183: one turn of the retry loop up to the response: the loop
\* test, the attempt counted, the limiter's sleep and the request.
WhileAttempt(p) ==
    /\ pc[p] = "while"
    /\ IF MayAttempt(attempts[p])
       THEN LET fixture_id == fixtures[p][idx[p]]
                slept == sleep_for_rate_limit(elapsed[p])
                gap == Age(since_request[p], slept)
            IN  /\ attempts' = [attempts EXCEPT ![p] = @ + 1]
                /\ last_gap' = [last_gap EXCEPT ![p] = gap]
                /\ elapsed' = [elapsed EXCEPT ![p] = 0]
                /\ since_request' = [since_request EXCEPT ![p] = 0]
                /\ wait' = [wait EXCEPT ![p] = NoTs]
                /\ \E resp \in Responses :
                      /\ r' = [r EXCEPT ![p] = resp]
                      /\ fetch_log' = [fetch_log EXCEPT ![p][fixture_id] =
                                          Append(@, Outcome(resp))]
                /\ fetched' = [fetched EXCEPT ![fixture_id] = Min(@ + 1, MaxFetched)]
                /\ pc' = [pc EXCEPT ![p] = "response"]
       ELSE /\ pc' = [pc EXCEPT ![p] = "after"]
            /\ wait' = [wait EXCEPT ![p] = NoTs]
            /\ UNCHANGED <<attempts, r, elapsed, since_request, last_gap, fetch_log, fetched>>
    /\ UNCHANGED <<files, fixtures, done_map, idx, counters,
                   setup_log, payloads0, manifest0, payloads_before>>
    /\ NoUpload(p)
    /\ UNCHANGED env
    /\ UNCHANGED paged

\* Lines 185-190: a 429 is waited out and the loop continues.
On429_same_slot(p) ==
    /\ pc[p] = "response"
    /\ Outcome(r[p]) = "RateLimited"
    /\ attempts' = [attempts EXCEPT ![p] = @ - 1]
    /\ pc' = [pc EXCEPT ![p] = "while"]
    /\ r' = [r EXCEPT ![p] = NoResponse]
    /\ UNCHANGED <<files, fixtures, done_map, idx, counters,
                   upload_error, clocks, history, env, paged>>

On429_recorded(p) ==
    /\ pc[p] = "response"
    /\ Outcome(r[p]) = "RateLimited"
    /\ manifest' = Append(manifest, RecLine(fixtures[p][idx[p]], "error", attempts[p]))
    /\ pc' = [pc EXCEPT ![p] = "while"]
    /\ r' = [r EXCEPT ![p] = NoResponse]
    /\ UNCHANGED <<payload, fixtures_path, fixtures, done_map, idx, attempts, counters,
                   upload_error, clocks, history>>
    /\ UNCHANGED env
    /\ UNCHANGED paged

On429(p) ==
    /\ pc[p] = "response"
    /\ Outcome(r[p]) = "RateLimited"
    /\ wait' = [wait EXCEPT ![p] = Wait(r[p], attempts[p])]
    /\ elapsed' = [elapsed EXCEPT ![p] = Age(@, wait'[p])]
    /\ since_request' = [since_request EXCEPT ![p] = Age(@, wait'[p])]
    /\ pc' = [pc EXCEPT ![p] = "while"]
    /\ UNCHANGED <<files, fixtures, done_map, idx, attempts, counters, last_gap, history>>
    /\ NoUpload(p)
    /\ r' = [r EXCEPT ![p] = NoResponse]
    /\ UNCHANGED env
    /\ UNCHANGED paged

\* Lines 192-198: any other failure is recorded and the loop continues.
OnFailed_raises(p) ==
    /\ pc[p] = "response"
    /\ Outcome(r[p]) = "Failed"
    /\ pc' = [pc EXCEPT ![p] = "exit1"]
    /\ UNCHANGED <<files, fixtures, done_map, idx, attempts, r, counters,
                   upload_error, clocks, history>>
    /\ UNCHANGED env
    /\ UNCHANGED paged

OnFailed(p) ==
    /\ pc[p] = "response"
    /\ Outcome(r[p]) = "Failed"
    /\ manifest' = append_manifest(manifest, fixtures[p][idx[p]], "error", attempts[p])
    /\ Upload(p)
    /\ pc' = [pc EXCEPT ![p] = "while"]
    /\ UNCHANGED <<payload, fixtures_path, fixtures, done_map, idx, attempts,
                   counters, clocks, history>>
    /\ r' = [r EXCEPT ![p] = NoResponse]
    /\ UNCHANGED env
    /\ UNCHANGED paged

\* Line 201, first half: write_text opens out_path, which creates it empty.
OpenPayload_skips_write(p) ==
    /\ pc[p] = "response"
    /\ Outcome(r[p]) = "Success"
    /\ pc' = [pc EXCEPT ![p] = "record"]
    /\ UNCHANGED <<files, fixtures, done_map, idx, attempts,
                   r, counters, clocks, history, env, paged>>
    /\ NoUpload(p)

OpenPayload(p) ==
    /\ pc[p] = "response"
    /\ Outcome(r[p]) = "Success"
    /\ payload' = [payload EXCEPT ![fixtures[p][idx[p]]] = "partial"]
    /\ pc' = [pc EXCEPT ![p] = "write"]
    /\ UNCHANGED <<manifest, fixtures_path, fixtures, done_map, idx, attempts,
                   r, counters, clocks, history>>
    /\ NoUpload(p)
    /\ UNCHANGED env
    /\ UNCHANGED paged

\* Lines 201-205: the document is written and mirrored to storage.
WritePayload(p) ==
    /\ pc[p] = "write"
    /\ payload' = [payload EXCEPT ![fixtures[p][idx[p]]] = "full"]
    /\ Upload(p)
    /\ pc' = [pc EXCEPT ![p] = "record"]
    /\ UNCHANGED <<manifest, fixtures_path, fixtures, done_map, idx, attempts,
                   r, counters, clocks, history>>
    /\ UNCHANGED env
    /\ UNCHANGED paged

\* Lines 206-212: the ok record, the ok count and the break.
RecordOk_counts_uploaded(p) ==
    /\ pc[p] = "record"
    /\ manifest' = append_manifest(manifest, fixtures[p][idx[p]], "ok", attempts[p])
    /\ Upload(p)
    /\ ok_count' = [ok_count EXCEPT ![p] = IF upload_error'[p] THEN @ ELSE @ + 1]
    /\ pc' = [pc EXCEPT ![p] = "after"]
    /\ UNCHANGED <<payload, fixtures_path, fixtures, done_map, idx, attempts,
                   skip_count, err_count, clocks, history, env>>
    /\ r' = [r EXCEPT ![p] = NoResponse]
    /\ UNCHANGED paged

RecordOk(p) ==
    /\ pc[p] = "record"
    /\ manifest' = append_manifest(manifest, fixtures[p][idx[p]], "ok", attempts[p])
    /\ Upload(p)
    /\ ok_count' = [ok_count EXCEPT ![p] = @ + 1]
    /\ pc' = [pc EXCEPT ![p] = "after"]
    /\ UNCHANGED <<payload, fixtures_path, fixtures, done_map, idx, attempts,
                   skip_count, err_count, clocks, history>>
    /\ r' = [r EXCEPT ![p] = NoResponse]
    /\ UNCHANGED env
    /\ UNCHANGED paged

\* Line 214: the test that counts the fixture as given up.
GaveUp_ignores_payload(att, present) == att >= MAX_ATTEMPTS_PER_FIXTURE

GaveUp_strict(att, present) == att > MAX_ATTEMPTS_PER_FIXTURE /\ ~present

GaveUp(att, present) == att >= MAX_ATTEMPTS_PER_FIXTURE /\ ~present

\* Lines 214-216: after the loop, the fixture is counted as an error when
\* its attempts are used up and it has no payload file.
AfterLoop(p) ==
    /\ pc[p] = "after"
    /\ err_count' = [err_count EXCEPT ![p] =
                        IF GaveUp(attempts[p], exists(fixtures[p][idx[p]])) THEN @ + 1 ELSE @]
    /\ idx' = [idx EXCEPT ![p] = @ + 1]
    /\ pc' = [pc EXCEPT ![p] = "for"]
    /\ UNCHANGED <<files, fixtures, done_map, attempts, r, ok_count, skip_count, clocks, history>>
    /\ NoUpload(p)
    /\ UNCHANGED env
    /\ UNCHANGED paged

\* Lines 218-220: the summary, printed when the work list is exhausted.
Summary(p) ==
    /\ pc[p] = "for"
    /\ idx[p] > Len(fixtures[p])
    /\ pc' = [pc EXCEPT ![p] = "done"]
    /\ UNCHANGED <<files, fixtures, done_map, idx, attempts, r, counters, clocks, history>>
    /\ NoUpload(p)
    /\ UNCHANGED env
    /\ UNCHANGED paged

Running(p) == pc[p] \notin {"off", "done", "exit0", "exit1", "killed"}

\* The process is terminated from outside, wherever it is.
Kill(p) ==
    /\ Running(p)
    /\ pc' = [pc EXCEPT ![p] = "killed"]
    /\ UNCHANGED <<files, fixtures, done_map, idx, attempts, r, counters, clocks, history>>
    /\ NoUpload(p)
    /\ UNCHANGED env
    /\ UNCHANGED paged

\* The script is started again with the same environment.
Rerun(p) ==
    /\ pc[p] \in {"done", "exit0", "exit1", "killed"}
    /\ Fresh(p, "start")
    /\ payloads_before' = IF pc[p] = "done" THEN Persisted ELSE {0}
    /\ \E e \in SUBSET Credentials : env' = [env EXCEPT ![p] = e]
    /\ UNCHANGED <<files, fetched>>
    /\ UNCHANGED paged

\* The steps of the script itself.
Advance(p) ==
    \/ CheckConfig(p)
    \/ StatusProbe(p)
    \/ FixturesForRound(p)
    \/ ResumeMap(p)
    \/ ForFixture(p)
    \/ WhileAttempt(p)
    \/ On429(p)
    \/ OnFailed(p)
    \/ OpenPayload(p)
    \/ WritePayload(p)
    \/ RecordOk(p)
    \/ AfterLoop(p)
    \/ Summary(p)

Step(p) ==
    \/ Advance(p)
    \/ Kill(p)
    \/ Rerun(p)

Next == Step(1)

Spec == Init /\ [][Next]_vars

\* ------------------------------------------------------------------------
\* The manifest fold on its own: any log of at most MaxLines lines, read by
\* the script's resume step.
Logs == UNION {[1..n -> Lines] : n \in 0..MaxLines}

InitFold ==
    /\ manifest \in Logs
    /\ payload = [f \in FixtureIds |-> "absent"]
    /\ fixtures_path = NoFile
    /\ pc = [p \in Procs |-> IF p = 1 THEN "resume" ELSE "off"]
    /\ fixtures = [p \in Procs |-> <<>>]
    /\ done_map = [p \in Procs |-> [f \in FixtureIds |-> NoRec]]
    /\ idx = [p \in Procs |-> 0]
    /\ attempts = [p \in Procs |-> 0]
    /\ r = [p \in Procs |-> NoResponse]
    /\ ok_count = [p \in Procs |-> 0]
    /\ skip_count = [p \in Procs |-> 0]
    /\ err_count = [p \in Procs |-> 0]
    /\ upload_error = [p \in Procs |-> FALSE]
    /\ elapsed = [p \in Procs |-> NoTs]
    /\ since_request = [p \in Procs |-> NoTs]
    /\ last_gap = [p \in Procs |-> NoTs]
    /\ wait = [p \in Procs |-> NoTs]
    /\ fetch_log = [p \in Procs |-> [f \in FixtureIds |-> <<>>]]
    /\ setup_log = [p \in Procs |-> <<>>]
    /\ payloads0 = [p \in Procs |-> {}]
    /\ manifest0 = [p \in Procs |-> Len(manifest)]
    /\ payloads_before = {0}
    /\ fetched = [f \in FixtureIds |-> 0]
    /\ env = [p \in Procs |-> Credentials]
    /\ NotPaging

NextFold == ResumeMap(1)

SpecFold == InitFold /\ [][NextFold]_vars

\* ------------------------------------------------------------------------
\* The 429 branch on its own: a 429 with any of these Retry-After headers,
\* answered to attempt number 1..MaxAttemptNo of an item (the numbers the
\* branch sees when MAX_ATTEMPTS is set that high).
BackoffHeaders ==
    {NoHeader, <<>>, <<"0">>, <<"3">>, <<"6", "0">>, <<"9", "0">>, <<"-", "1">>,
     <<"2", ".", "5">>, <<"s", "o", "o", "n">>}

InitBackoff ==
    /\ manifest = <<>>
    /\ payload = [f \in FixtureIds |-> "absent"]
    /\ \E list \in WorkLists \ {<<>>} : \E i \in 1..Len(list) : \E a \in 1..MaxAttemptNo :
       \E h \in BackoffHeaders :
          /\ fixtures_path = list
          /\ fixtures = [p \in Procs |-> IF p = 1 THEN list ELSE <<>>]
          /\ idx = [p \in Procs |-> IF p = 1 THEN i ELSE 0]
          /\ attempts = [p \in Procs |-> IF p = 1 THEN a ELSE 0]
          /\ r = [p \in Procs |-> IF p = 1 THEN Response(429, "dict", h) ELSE NoResponse]
          /\ fetch_log = [p \in Procs |-> [f \in FixtureIds |->
                             IF p = 1 /\ f = list[i] THEN <<"RateLimited">> ELSE <<>>]]
    /\ pc = [p \in Procs |-> IF p = 1 THEN "response" ELSE "off"]
    /\ done_map = [p \in Procs |-> [f \in FixtureIds |-> NoRec]]
    /\ ok_count = [p \in Procs |-> 0]
    /\ skip_count = [p \in Procs |-> 0]
    /\ err_count = [p \in Procs |-> 0]
    /\ upload_error = [p \in Procs |-> FALSE]
    /\ elapsed = [p \in Procs |-> IF p = 1 THEN 0 ELSE NoTs]
    /\ since_request = [p \in Procs |-> IF p = 1 THEN 0 ELSE NoTs]
    /\ last_gap = [p \in Procs |-> NoTs]
    /\ wait = [p \in Procs |-> NoTs]
    /\ setup_log = [p \in Procs |-> <<>>]
    /\ payloads0 = [p \in Procs |-> {}]
    /\ manifest0 = [p \in Procs |-> 0]
    /\ payloads_before = {0}
    /\ fetched = [f \in FixtureIds |-> 0]
    /\ env = [p \in Procs |-> Credentials]
    /\ NotPaging

NextBackoff == On429(1)

SpecBackoff == InitBackoff /\ [][NextBackoff]_vars

\* ------------------------------------------------------------------------
\* One run from its start to its end, never killed, in any context earlier
\* runs can have left: no files at all, or fixtures.json with, for each of
\* its fixtures, at most one manifest record and possibly the payload.
PriorLogs ==
    {log \in UNION {[1..n -> {l \in Lines : l.kind = "rec"}] : n \in 0..NumFixtures} :
        \A i, j \in 1..Len(log) : i < j => log[i].fixture_id < log[j].fixture_id}

InitRun ==
    /\ fixtures_path \in {NoFile} \cup (WorkLists \ {<<>>})
    /\ manifest \in PriorLogs
    /\ payload \in [FixtureIds -> {"absent", "full"}]
    /\ \A f \in FixtureIds :
          (fixtures_path = NoFile \/ f - 1000 > Len(fixtures_path)) =>
              payload[f] = "absent" /\ RecordsIn(manifest, f) = {}
    /\ pc = [p \in Procs |-> IF p = 1 THEN "start" ELSE "off"]
    /\ fixtures = [p \in Procs |-> <<>>]
    /\ done_map = [p \in Procs |-> [f \in FixtureIds |-> NoRec]]
    /\ idx = [p \in Procs |-> 0]
    /\ attempts = [p \in Procs |-> 0]
    /\ r = [p \in Procs |-> NoResponse]
    /\ ok_count = [p \in Procs |-> 0]
    /\ skip_count = [p \in Procs |-> 0]
    /\ err_count = [p \in Procs |-> 0]
    /\ upload_error = [p \in Procs |-> FALSE]
    /\ elapsed = [p \in Procs |-> NoTs]
    /\ since_request = [p \in Procs |-> NoTs]
    /\ last_gap = [p \in Procs |-> NoTs]
    /\ wait = [p \in Procs |-> NoTs]
    /\ fetch_log = [p \in Procs |-> [f \in FixtureIds |-> <<>>]]
    /\ setup_log = [p \in Procs |-> <<>>]
    /\ payloads0 = [p \in Procs |-> Persisted]
    /\ manifest0 = [p \in Procs |-> Len(manifest)]
    /\ payloads_before = {0}
    /\ fetched = [f \in FixtureIds |-> 0]
    /\ env = [p \in Procs |-> Credentials]
    /\ NotPaging

NextRun == Advance(1)

\* The script is a sequential program whose sleeps are finite and whose
\* requests are answered: a step it can take, it takes.
SpecRun == InitRun /\ [][NextRun]_vars /\ WF_vars(Advance(1))

\* ------------------------------------------------------------------------
\* Two processes on the same run directory, which holds the fixtures.json
\* of a round of one fixture and nothing else.  Process 1 runs the script,
\* and runs it again whenever it has ended; process 2 is started at any
\* moment and runs the script once; their steps interleave in any order.
InitTwo ==
    /\ manifest = <<>>
    /\ payload = [f \in FixtureIds |-> "absent"]
    /\ fixtures_path = <<1001>>
    /\ pc = [p \in Procs |-> IF p = 1 THEN "start" ELSE "off"]
    /\ fixtures = [p \in Procs |-> <<>>]
    /\ done_map = [p \in Procs |-> [f \in FixtureIds |-> NoRec]]
    /\ idx = [p \in Procs |-> 0]
    /\ attempts = [p \in Procs |-> 0]
    /\ r = [p \in Procs |-> NoResponse]
    /\ ok_count = [p \in Procs |-> 0]
    /\ skip_count = [p \in Procs |-> 0]
    /\ err_count = [p \in Procs |-> 0]
    /\ upload_error = [p \in Procs |-> FALSE]
    /\ elapsed = [p \in Procs |-> NoTs]
    /\ since_request = [p \in Procs |-> NoTs]
    /\ last_gap = [p \in Procs |-> NoTs]
    /\ wait = [p \in Procs |-> NoTs]
    /\ fetch_log = [p \in Procs |-> [f \in FixtureIds |-> <<>>]]
    /\ setup_log = [p \in Procs |-> <<>>]
    /\ payloads0 = [p \in Procs |-> {}]
    /\ manifest0 = [p \in Procs |-> 0]
    /\ payloads_before = {0}
    /\ fetched = [f \in FixtureIds |-> 0]
    /\ env = [p \in Procs |-> Credentials]
    /\ NotPaging

\* A second process is started on the script, with every credential set.
Start(p) ==
    /\ pc[p] = "off"
    /\ Fresh(p, "start")
    /\ UNCHANGED <<files, payloads_before, fetched, env, paged>>

NextTwo ==
    \/ Advance(1)
    \/ Rerun(1)
    \/ Start(2)
    \/ Advance(2)

SpecTwo == InitTwo /\ [][NextTwo]_vars

\* ------------------------------------------------------------------------
\* The three readers of the fixtures of a round, each on any source of at
\* most MaxPages pages, none of them empty, holding the fixtures 1001,
\* 1002, ... in order.
RECURSIVE Concat(_)
Concat(pages) ==
    IF pages = <<>> THEN <<>> ELSE Concat(SubSeq(pages, 1, Len(pages) - 1)) \o pages[Len(pages)]

Sources ==
    {[pages |-> ps, paging |-> b] :
        ps \in {qs \in UNION {[1..n -> UNION {[1..k -> FixtureIds] : k \in 1..NumFixtures}] :
                                  n \in 0..MaxPages} :
                    Concat(qs) \in WorkLists},
        b \in BOOLEAN}

Readers == {"fetch_raw_round", "paged_get", "fixtures_for_round"}

InitPaging ==
    /\ source \in Sources
    /\ reader \in Readers
    /\ page = 1
    /\ out = <<>>
    /\ pages_asked = <<>>
    /\ manifest = <<>>
    /\ payload = [f \in FixtureIds |-> "absent"]
    /\ fixtures_path = NoFile
    /\ pc = [p \in Procs |-> IF p # 1 THEN "off"
                              ELSE IF reader = "fetch_raw_round" THEN "fixtures" ELSE "page"]
    /\ fixtures = [p \in Procs |-> <<>>]
    /\ done_map = [p \in Procs |-> [f \in FixtureIds |-> NoRec]]
    /\ idx = [p \in Procs |-> 0]
    /\ attempts = [p \in Procs |-> 0]
    /\ r = [p \in Procs |-> NoResponse]
    /\ ok_count = [p \in Procs |-> 0]
    /\ skip_count = [p \in Procs |-> 0]
    /\ err_count = [p \in Procs |-> 0]
    /\ upload_error = [p \in Procs |-> FALSE]
    /\ elapsed = [p \in Procs |-> NoTs]
    /\ since_request = [p \in Procs |-> IF p = 1 /\ reader = "fetch_raw_round" THEN 0 ELSE NoTs]
    /\ last_gap = [p \in Procs |-> NoTs]
    /\ wait = [p \in Procs |-> NoTs]
    /\ fetch_log = [p \in Procs |-> [f \in FixtureIds |-> <<>>]]
    /\ setup_log = [p \in Procs |-> IF p = 1 /\ reader = "fetch_raw_round"
                                      THEN <<"/status">> ELSE <<>>]
    /\ payloads0 = [p \in Procs |-> {}]
    /\ manifest0 = [p \in Procs |-> 0]
    /\ payloads_before = {0}
    /\ fetched = [f \in FixtureIds |-> 0]
    /\ env = [p \in Procs |-> Credentials]

\* fetch_raw_round.py, lines 138-147: one request without a page parameter,
\* which the API answers with its first page; the answer's response is the
\* work list.
FixturesRequest(p) ==
    /\ reader = "fetch_raw_round"
    /\ FixturesForRound(p)
    /\ ~FixturesFailed(r'[p]) => fixtures'[p] = Answer(source, 1).response

\* api_football.py, paged_get: one turn of the while loop.
paged_get(p) ==
    /\ reader = "paged_get"
    /\ pc[p] = "page"
    /\ LET data == Answer(source, page)
           items == data.response
       IN  /\ pages_asked' = Append(pages_asked, page)
           /\ IF items = <<>>
              THEN /\ pc' = [pc EXCEPT ![p] = "paged"]
                   /\ UNCHANGED <<out, page>>
              ELSE /\ out' = out \o items
                   /\ page' = page + 1
                   /\ UNCHANGED pc
    /\ UNCHANGED <<files, fixtures, done_map, idx, attempts, r, counters,
                   upload_error, clocks, history, env, source, reader>>

\* ingest_players_by_round.py, fixtures_for_round: one turn of the while
\* loop.
fixtures_for_round(p) ==
    /\ reader = "fixtures_for_round"
    /\ pc[p] = "page"
    /\ LET d == Answer(source, page)
       IN  /\ pages_asked' = Append(pages_asked, page)
           /\ out' = out \o d.response
           /\ IF PagingGet(d.paging, "current") >= PagingGet(d.paging, "total")
              THEN /\ pc' = [pc EXCEPT ![p] = "paged"]
                   /\ UNCHANGED page
              ELSE /\ page' = page + 1
                   /\ UNCHANGED pc
    /\ UNCHANGED <<files, fixtures, done_map, idx, attempts, r, counters,
                   upload_error, clocks, history, env, source, reader>>

NextPaging ==
    \/ FixturesRequest(1)
    \/ paged_get(1)
    \/ fixtures_for_round(1)

SpecPaging == InitPaging /\ [][NextPaging]_vars

\* ------------------------------------------------------------------------
\* Vocabulary of the properties, on the run of process 1.

Max(S) == CHOOSE x \in S : \A y \in S : y <= x

\* The positions of log holding a well-formed record of fixture f.
RecordsOf(log, f) ==
    {i \in 1..Len(log) : log[i].kind = "rec" /\ log[i].fixture_id = f}

\* The last well-formed record of f in log, NoRec when there is none.
LastRecord(log, f) ==
    IF RecordsOf(log, f) = {} THEN NoRec ELSE log[Max(RecordsOf(log, f))]

\* The manifest as the run found it, and what the run has appended to it.
ManifestAtStart == SubSeq(manifest, 1, manifest0[1])
Appended == SubSeq(manifest, manifest0[1] + 1, Len(manifest))
AppendedFor(f) == SelectSeq(Appended, LAMBDA line : line.kind = "rec" /\ line.fixture_id = f)

WorkItems == {fixtures[1][i] : i \in 1..Len(fixtures[1])}
Processed == {fixtures[1][i] : i \in 1..Min(idx[1] - 1, Len(fixtures[1]))}

\* The claim's skip condition, on the files as the run found them.
AlreadyDone(f) ==
    \/ f \in payloads0[1]
    \/ LastRecord(ManifestAtStart, f) # NoRec /\ LastRecord(ManifestAtStart, f).status = "ok"

Fetches(f) == Len(fetch_log[1][f])
Got(f, outcome) == \E k \in 1..Fetches(f) : fetch_log[1][f][k] = outcome

\* The item went through the retry loop and left it without a success.
GaveUpItem(f) == f \in Processed /\ ~AlreadyDone(f) /\ ~Got(f, "Success")

\* C3: load_done_map maps every fixture id to the last well-formed record
\* of that id in the log, in log order, and to nothing when the log has no
\* such record; lines that are not JSON or have no fixture_id change nothing.
FoldKeepsLast ==
    pc[1] = "for" =>
        \A f \in FixtureIds : done_map[1][f] = LastRecord(manifest, f)

\* A log with two different records of one fixture and a malformed line
\* between them has been folded to the later record.
FoldKeepsLastWitness ==
    /\ pc[1] = "for"
    /\ \E f \in FixtureIds : \E i, j \in RecordsOf(manifest, f) :
          /\ i < j
          /\ manifest[i] # manifest[j]
          /\ \E k \in (i + 1)..(j - 1) : manifest[k].kind \in {"garbage", "nokey"}
          /\ done_map[1][f] = manifest[j]

\* C1: an item whose payload file exists or whose last manifest record is
\* ok when the run starts is never fetched in the run, gets no manifest
\* record from it, and is counted as skipped exactly once: the skipped
\* count is the number of such items among those the loop has passed.
ResumeSkip ==
    /\ \A f \in WorkItems :
          AlreadyDone(f) => Fetches(f) = 0 /\ AppendedFor(f) = <<>>
    /\ skip_count[1] = Cardinality({f \in Processed : AlreadyDone(f)})

\* A finished run that skipped one item for its payload file alone and
\* another for its ok record.
ResumeSkipWitness ==
    /\ pc[1] = "done"
    /\ skip_count[1] = 2
    /\ \E f, g \in WorkItems :
          /\ f \in payloads0[1] /\ LastRecord(ManifestAtStart, f) = NoRec
          /\ LastRecord(ManifestAtStart, g) # NoRec
          /\ LastRecord(ManifestAtStart, g).status = "ok"

\* C2: no item gets more than MAX_ATTEMPTS_PER_FIXTURE fetch requests in a
\* run, and an item without a manifest record that leaves the retry loop
\* without success has had exactly MAX_ATTEMPTS_PER_FIXTURE of them.
RetryBudget ==
    \A f \in FixtureIds :
        /\ Fetches(f) <= MAX_ATTEMPTS_PER_FIXTURE
        /\ (GaveUpItem(f) /\ LastRecord(ManifestAtStart, f) = NoRec)
              => Fetches(f) = MAX_ATTEMPTS_PER_FIXTURE

\* An item new to the manifest has been given up after a 429, a failure
\* and another 429.
RetryBudgetWitness ==
    /\ pc[1] = "done"
    /\ \E f \in WorkItems :
          /\ GaveUpItem(f)
          /\ LastRecord(ManifestAtStart, f) = NoRec
          /\ fetch_log[1][f] = <<"RateLimited", "Failed", "RateLimited">>

\* The records a run starting at attempt count a appends for an item whose
\* fetches had these outcomes: none for a 429, error or ok with the attempt
\* number of the fetch for the others.
RECURSIVE ExpectedRecords(_, _, _)
ExpectedRecords(f, a, outcomes) ==
    IF outcomes = <<>> THEN <<>>
    ELSE LET n == Len(outcomes)
             before == ExpectedRecords(f, a, SubSeq(outcomes, 1, n - 1))
         IN  IF outcomes[n] = "RateLimited" THEN before
             ELSE Append(before, RecLine(f, IF outcomes[n] = "Success" THEN "ok" ELSE "error",
                                         a + n))

\* The item's last record at the start of the run is an error record and
\* it has no payload file.
LeftInError(f) ==
    /\ f \notin payloads0[1]
    /\ LastRecord(ManifestAtStart, f) # NoRec
    /\ LastRecord(ManifestAtStart, f).status = "error"

\* C4 as stated: in a run that finds an item with an error record as its
\* last record and no payload file, the item is fetched at least once.
RetriedOnResume ==
    \A f \in Processed : LeftInError(f) => Fetches(f) >= 1

\* C4 as amended: such an item continues from the attempt count a of its
\* last record: it is fetched at least once and at most
\* MAX_ATTEMPTS_PER_FIXTURE - a times when a is below the cap and not at
\* all when a has reached it, the records the run appends for it are
\* those of its fetches other than 429s, numbered a + 1, a + 2, ... by
\* fetch, and an item whose payload file exists is not fetched.
ResumesFromLoggedAttempts ==
    /\ \A f \in Processed :
          LeftInError(f) =>
             LET a == LastRecord(ManifestAtStart, f).attempts
             IN  /\ a < MAX_ATTEMPTS_PER_FIXTURE =>
                       Fetches(f) >= 1 /\ Fetches(f) <= MAX_ATTEMPTS_PER_FIXTURE - a
                 /\ a >= MAX_ATTEMPTS_PER_FIXTURE => Fetches(f) = 0
                 /\ AppendedFor(f) = ExpectedRecords(f, a, fetch_log[1][f])
    /\ \A f \in WorkItems : f \in payloads0[1] => Fetches(f) = 0

\* A finished rerun that found one item with its payload, which it did not
\* fetch, and another with an error record of attempt 1, which it fetched
\* twice and recorded as attempts 2 and 3.
ResumesFromLoggedAttemptsWitness ==
    /\ pc[1] = "done"
    /\ \E f, g \in WorkItems :
          /\ f \in payloads0[1] /\ Fetches(f) = 0
          /\ LeftInError(g)
          /\ LastRecord(ManifestAtStart, g).attempts = 1
          /\ AppendedFor(g) = <<RecLine(g, "error", 2), RecLine(g, "error", 3)>>

\* C5 as stated: an item that left the retry loop without success has an
\* error record as its last manifest record.
GaveUpIsRecorded ==
    \A f \in FixtureIds :
        GaveUpItem(f) =>
            /\ LastRecord(manifest, f) # NoRec
            /\ LastRecord(manifest, f).status = "error"

\* C6 as stated: when a run ends after a run that ended, the payload files
\* are those the earlier run left.
IdempotentRerun ==
    (pc[1] = "done" /\ payloads_before # {0}) => Persisted = payloads_before

\* C7 as stated: every per-fixture request is sent at least
\* MIN_INTERVAL_SECONDS after the run's previous API request.
RateLimitSpacing ==
    last_gap[1] # NoTs => last_gap[1] >= MIN_INTERVAL_SECONDS

InLoop == pc[1] \in {"while", "response", "write", "record", "after"}
Current == fixtures[1][idx[1]]
AllFailed(f) == Fetches(f) >= 1 /\ \A k \in 1..Fetches(f) : fetch_log[1][f][k] = "Failed"

\* C8: an item that uses up its attempts does not end the run: the run
\* never exits once an item has been fetched, it always has a next step
\* until its summary, the summary comes only after every item of the work
\* list has been passed, and when it comes an item A whose every fetch
\* failed has an error record as its last record while an item B that was
\* fetched with success has its payload, whichever of the two came first.
PartialFailureIsolation ==
    /\ pc[1] \in {"exit0", "exit1"} => \A f \in FixtureIds : Fetches(f) = 0
    /\ Running(1) => ENABLED Advance(1)
    /\ pc[1] = "done" =>
          /\ Processed = WorkItems
          /\ \A A, B \in WorkItems :
                (AllFailed(A) /\ Got(B, "Success")) =>
                    /\ payload[B] = "full"
                    /\ LastRecord(manifest, A) # NoRec
                    /\ LastRecord(manifest, A).status = "error"

\* A finished fresh run whose first item failed three times and whose
\* second item succeeded at once.
PartialFailureIsolationWitness ==
    /\ pc[1] = "done"
    /\ manifest0[1] = 0
    /\ Len(fixtures[1]) = 2
    /\ fetch_log[1][fixtures[1][1]] = <<"Failed", "Failed", "Failed">>
    /\ fetch_log[1][fixtures[1][2]] = <<"Success">>
    /\ payload[fixtures[1][2]] = "full"
    /\ err_count[1] = 1

FreshRun == manifest0[1] = 0 /\ payloads0[1] = {}
RecordsFor(f) == SelectSeq(manifest, LAMBDA line : line.kind = "rec" /\ line.fixture_id = f)

\* C9: at the summary of a run that found no manifest and no payloads and
\* met no 429, an item that succeeded on its first fetch has exactly one
\* ok record and its payload, an item whose every fetch failed has the
\* error records of attempts 1 to MAX_ATTEMPTS_PER_FIXTURE and no payload,
\* every item's records are those of its fetches in order, and the
\* counters are: ok the items that succeeded, skipped none, errors the
\* items that never succeeded.
FreshRunManifestAndSummary ==
    (pc[1] = "done" /\ FreshRun /\ \A f \in FixtureIds : ~Got(f, "RateLimited")) =>
        /\ \A f \in WorkItems :
              /\ fetch_log[1][f] = <<"Success">> =>
                    RecordsFor(f) = <<RecLine(f, "ok", 1)>> /\ payload[f] = "full"
              /\ AllFailed(f) =>
                    /\ RecordsFor(f) = [k \in 1..MAX_ATTEMPTS_PER_FIXTURE |-> RecLine(f, "error", k)]
                    /\ payload[f] = "absent"
              /\ RecordsFor(f) = ExpectedRecords(f, 0, fetch_log[1][f])
        /\ Len(manifest) = Cardinality({<<f, k>> \in FixtureIds \X (1..MAX_ATTEMPTS_PER_FIXTURE) :
                                            k <= Fetches(f)})
        /\ ok_count[1] = Cardinality({f \in WorkItems : Got(f, "Success")})
        /\ skip_count[1] = 0
        /\ err_count[1] = Cardinality({f \in WorkItems : ~Got(f, "Success")})

\* The scenario of the specification: 1001 succeeds, 1002 fails three
\* times; one ok record, three error records, summary 1 / 0 / 1.
FreshRunManifestAndSummaryWitness ==
    /\ pc[1] = "done"
    /\ FreshRun
    /\ fixtures[1] = <<1001, 1002>>
    /\ fetch_log[1][1001] = <<"Success">>
    /\ fetch_log[1][1002] = <<"Failed", "Failed", "Failed">>
    /\ manifest = <<RecLine(1001, "ok", 1), RecLine(1002, "error", 1),
                    RecLine(1002, "error", 2), RecLine(1002, "error", 3)>>
    /\ Persisted = {1001}
    /\ ok_count[1] = 1 /\ skip_count[1] = 0 /\ err_count[1] = 1

AfterRateLimited ==
    /\ pc[1] = "while"
    /\ Fetches(Current) >= 1
    /\ fetch_log[1][Current][Fetches(Current)] = "RateLimited"

\* C10 as stated: after a 429 has been handled the same item is fetched
\* again: the loop is back at its test with an attempt left.
RetriesSameSlot ==
    AfterRateLimited => attempts[1] < MAX_ATTEMPTS_PER_FIXTURE

\* C10 as amended: handling a 429 waits the computed time, appends no
\* manifest record, keeps the attempt counted and goes back to the loop
\* test on the same item; from there the item is fetched again when fewer
\* than MAX_ATTEMPTS_PER_FIXTURE attempts are counted, and otherwise the
\* loop ends without another fetch.
RateLimitedHandling ==
    [][/\ (pc[1] = "response" /\ Outcome(r[1]) = "RateLimited" /\ pc'[1] # "killed") =>
            /\ manifest' = manifest
            /\ idx' = idx /\ attempts' = attempts
            /\ pc'[1] = "while"
            /\ since_request'[1] = Age(since_request[1], Wait(r[1], attempts[1]))
            /\ elapsed'[1] = Age(elapsed[1], Wait(r[1], attempts[1]))
       /\ (AfterRateLimited /\ pc'[1] # "killed") =>
            IF attempts[1] < MAX_ATTEMPTS_PER_FIXTURE
            THEN /\ idx' = idx
                 /\ Len(fetch_log'[1][Current]) = Fetches(Current) + 1
            ELSE /\ fetch_log' = fetch_log
                 /\ pc'[1] = "after"
      ]_vars

\* A 429 on the last attempt has been handled: no record was appended for
\* it and the loop has ended without another fetch of the item.
RateLimitedHandlingWitness ==
    /\ pc[1] = "after"
    /\ fetch_log[1][Current] = <<"RateLimited", "RateLimited", "RateLimited">>
    /\ AppendedFor(Current) = <<>>
    /\ attempts[1] = MAX_ATTEMPTS_PER_FIXTURE

\* The Retry-After values that are non-negative integers, with the seconds
\* they stand for, and the backoff by attempt number.
HeaderSeconds(h) ==
    CASE h = <<"0">> -> 0
      [] h = <<"3">> -> 3
      [] h = <<"6", "0">> -> 60
      [] h = <<"9", "0">> -> 90
      [] OTHER -> NoTs

BackoffSeconds(a) ==
    CASE a = 1 -> 4
      [] a = 2 -> 8
      [] a = 3 -> 16
      [] a = 4 -> 32
      [] OTHER -> 60

RateLimitedStep == pc[1] = "response" /\ Outcome(r[1]) = "RateLimited" /\ pc'[1] = "while"

\* C11: the wait of a 429 is the Retry-After value in seconds when the
\* header is present and is a non-negative integer, taken as it is (90 for
\* "90"); otherwise it is the computed backoff min(60, 2^attempt * 2) of
\* the item's attempt number, which is 4, 8, 16, 32 and then 60 seconds,
\* and this computed wait is never above 60 seconds.
BackoffValue ==
    [][RateLimitedStep =>
          IF HeaderSeconds(r[1].retry_after) # NoTs
          THEN wait'[1] = Seconds(HeaderSeconds(r[1].retry_after))
          ELSE /\ wait'[1] = Seconds(BackoffSeconds(attempts[1]))
               /\ wait'[1] = Seconds(Min(60, (2 ^ attempts[1]) * 2))
               /\ wait'[1] <= Seconds(60)
      ]_vars

\* A 429 without a usable header on a fifth attempt has been waited 60
\* seconds.
BackoffValueWitness ==
    /\ pc[1] = "while"
    /\ attempts[1] = 5
    /\ wait[1] = Seconds(60)
    /\ fetch_log[1][Current] = <<"RateLimited">>
    /\ fixtures_path = fixtures[1]
    /\ manifest = <<>>

\* C12: over any sequence of runs and kills, a payload file is only ever
\* written where none exists: a step that opens a payload for writing finds
\* the file absent, a complete payload is never changed afterwards, and a
\* file that exists changes only by the write that created it completing.
PayloadWriteOnce ==
    [][\A f \in FixtureIds :
          /\ (pc[1] = "response" /\ pc'[1] = "write" /\ Current = f) => payload[f] = "absent"
          /\ payload[f] = "full" => payload'[f] = "full"
          /\ (payload[f] = "partial" /\ payload'[f] # "partial") =>
                pc[1] = "write" /\ Current = f /\ payload'[f] = "full"
      ]_vars

\* A run has ended that found the payload of one item, written by an
\* earlier run, left it alone, and wrote the payload of another item.
PayloadWriteOnceWitness ==
    /\ pc[1] = "done"
    /\ \E f, g \in WorkItems :
          /\ f \in payloads0[1] /\ payload[f] = "full" /\ Fetches(f) = 0
          /\ g \notin payloads0[1] /\ Got(g, "Success") /\ payload[g] = "full"

NothingProcessed ==
    /\ \A f \in FixtureIds : Fetches(f) = 0
    /\ Appended = <<>>
    /\ idx[1] = 0
    /\ ok_count[1] = 0 /\ skip_count[1] = 0 /\ err_count[1] = 0

\* C13: a run started without the API key, the storage URL or the storage
\* key goes from its start to exit status 1 without any API request, and a
\* run whose /fixtures request is answered with a status other than 200 or
\* a body that is not an object goes to exit status 1 from there; a run
\* that has exited with status 1 has sent no per-fixture request, appended
\* no manifest record and processed no item, and it exited for one of
\* these two reasons.
FatalSetupErrors ==
    /\ [](/\ ~(Credentials \subseteq env[1]) =>
                /\ pc[1] \in {"start", "exit1", "killed"}
                /\ setup_log[1] = <<>>
          /\ pc[1] = "exit1" =>
                /\ NothingProcessed
                /\ \/ ~(Credentials \subseteq env[1])
                   \/ /\ setup_log[1] = <<"/status", "/fixtures">>
                      /\ (r[1].status_code # 200 \/ r[1].body # "dict"))
    /\ [][/\ (pc[1] = "start" /\ ~(Credentials \subseteq env[1]) /\ pc'[1] # "killed") =>
                pc'[1] = "exit1"
          /\ (/\ pc[1] = "fixtures" /\ pc'[1] # "killed"
              /\ fixtures_path = NoFile
              /\ (r'[1].status_code # 200 \/ r'[1].body # "dict")) =>
                /\ pc'[1] = "exit1"
                /\ manifest' = manifest /\ payload' = payload /\ fetch_log' = fetch_log
         ]_vars

\* A run with every credential has exited with status 1 on a /fixtures
\* answer of status 200 whose body is not an object, with nothing processed.
FatalSetupErrorsWitness ==
    /\ pc[1] = "exit1"
    /\ env[1] = Credentials
    /\ setup_log[1] = <<"/status", "/fixtures">>
    /\ r[1].status_code = 200 /\ r[1].body = "none"
    /\ NothingProcessed

\* C14: whether an upload to storage succeeds or raises, the step that
\* makes it has the same local effect: writing a payload leaves the
\* complete local payload and goes on to the ok record; recording a success
\* appends the ok record with the attempt number and counts one ok;
\* recording a failure appends the error record and returns to the loop;
\* the uploads of status.json and fixtures.json leave manifest, payloads
\* and counters alone and do not end the run.  No item's records, payload
\* or count depend on upload_error.
BestEffortMirroring ==
    [][(pc'[1] # "killed" /\ pc'[1] # pc[1]) =>
          \A raised \in BOOLEAN : upload_error'[1] = raised =>
            CASE pc[1] = "write" ->
                    /\ payload' = [payload EXCEPT ![Current] = "full"]
                    /\ manifest' = manifest /\ counters' = counters
                    /\ pc'[1] = "record"
              [] pc[1] = "record" ->
                    /\ manifest' = Append(manifest, RecLine(Current, "ok", attempts[1]))
                    /\ payload' = payload /\ payload[Current] = "full"
                    /\ ok_count'[1] = ok_count[1] + 1
                    /\ skip_count' = skip_count /\ err_count' = err_count
                    /\ pc'[1] = "after"
              [] pc[1] = "response" /\ Outcome(r[1]) = "Failed" ->
                    /\ manifest' = Append(manifest, RecLine(Current, "error", attempts[1]))
                    /\ payload' = payload /\ counters' = counters
                    /\ pc'[1] = "while"
              [] pc[1] = "status" ->
                    /\ manifest' = manifest /\ payload' = payload /\ counters' = counters
                    /\ pc'[1] = "fixtures"
              [] pc[1] = "fixtures" /\ ~FixturesFailed(r'[1]) /\ fixtures'[1] # <<>> ->
                    /\ manifest' = manifest /\ payload' = payload /\ counters' = counters
                    /\ pc'[1] = "resume"
              [] OTHER -> upload_error'[1] = FALSE \/ pc'[1] = "exit0"
      ]_vars

\* The re-upload of the manifest has just failed for an item fetched with
\* success: its payload is complete, its ok record is the last line of the
\* manifest and it has been counted as ok.
BestEffortMirroringWitness ==
    /\ pc[1] = "after"
    /\ upload_error[1] = TRUE
    /\ payload[Current] = "full"
    /\ Len(manifest) > 0
    /\ manifest[Len(manifest)] = RecLine(Current, "ok", attempts[1])
    /\ ok_count[1] = Cardinality({f \in Processed \cup {Current} : Got(f, "Success")})
    /\ ok_count[1] >= 1

\* The answer to page n ends the paging by the rule of the specification:
\* the page is empty or its paging object reports current >= total.
StopsAt(src, n) ==
    \/ Answer(src, n).response = <<>>
    \/ src.paging /\ Answer(src, n).paging.current >= Answer(src, n).paging.total

\* The reader has returned its list, and the list.
Returned ==
    IF reader = "fetch_raw_round" THEN pc[1] \in {"resume", "exit0"} ELSE pc[1] = "paged"

WorkList == IF reader = "fetch_raw_round" THEN fixtures[1] ELSE out

\* C15 as stated: each of the three readers ends with the in-order
\* concatenation of the items of all the pages of the round as its list,
\* having requested pages 1, 2, ... in order.
PagedWorkList ==
    Returned =>
        /\ pages_asked = [n \in 1..Len(pages_asked) |-> n]
        /\ WorkList = Concat(source.pages)

\* C15 holds of paged_get on every source, and of fixtures_for_round on the
\* sources whose answers carry the paging object; both stop at a page
\* that ends the paging by the rule.
PagedReadersWorkList ==
    (/\ Returned
     /\ \/ reader = "paged_get"
        \/ reader = "fixtures_for_round" /\ source.paging) =>
        /\ pages_asked = [n \in 1..Len(pages_asked) |-> n]
        /\ StopsAt(source, Len(pages_asked))
        /\ WorkList = Concat(source.pages)

\* The /fixtures requests the run has sent.
FixturesRequests == Len(SelectSeq(setup_log[1], LAMBDA path : path = "/fixtures"))

\* C16: a run that finds fixtures.json takes its work list from the file
\* and sends no /fixtures request, then or later; the file, once written,
\* is never written again, so the work list of every later run is the one
\* of the run that wrote it.
WorkListFetchedOnce ==
    /\ []((fixtures_path # NoFile /\ pc[1] \in {"resume", "for", "while", "response",
                                               "write", "record", "after", "done", "exit0"}) =>
              /\ fixtures[1] = fixtures_path
              /\ FixturesRequests <= 1)
    /\ [][fixtures_path # NoFile =>
              /\ fixtures_path' = fixtures_path
              /\ (pc[1] # "start" /\ pc'[1] # "start") =>
                    FixturesRequests' = FixturesRequests
              /\ (pc[1] = "fixtures" /\ pc'[1] # "killed") =>
                    /\ fixtures'[1] = fixtures_path
                    /\ FixturesRequests' = 0
         ]_vars

\* A rerun has ended that found fixtures.json and a manifest, sent only
\* the status request besides its per-fixture requests, and worked on the
\* persisted list of two fixtures.
WorkListFetchedOnceWitness ==
    /\ pc[1] = "done"
    /\ manifest0[1] > 0
    /\ setup_log[1] = <<"/status">>
    /\ fixtures_path = <<1001, 1002>>
    /\ fixtures[1] = fixtures_path
    /\ \E f \in FixtureIds : Fetches(f) > 0

\* C17 as stated: over all the runs so far, no item has had more than
\* MAX_ATTEMPTS_PER_FIXTURE fetch requests.
CumulativeRetryCap ==
    \A f \in FixtureIds : fetched[f] <= MAX_ATTEMPTS_PER_FIXTURE

\* The attempts the manifest had recorded for f when the run started.
PriorCount(f) ==
    IF LastRecord(ManifestAtStart, f) = NoRec THEN 0 ELSE LastRecord(ManifestAtStart, f).attempts

Ended == pc[1] \in {"done", "exit0", "exit1"}

\* C18: whatever the work list and the answers, 429s included, a run that
\* is not killed ends: an item's retry loop makes at most
\* MAX_ATTEMPTS_PER_FIXTURE minus its recorded attempts turns, once the
\* loop over the work list has begun the summary is reached, and at the
\* summary every item of the work list has been passed and was skipped,
\* or fetched with success on its last fetch, or left without success with
\* its attempts used up.
Termination ==
    /\ [](\A f \in FixtureIds :
              Fetches(f) <= Max({0, MAX_ATTEMPTS_PER_FIXTURE - PriorCount(f)}))
    /\ [](pc[1] = "done" =>
              /\ Processed = WorkItems
              /\ \A f \in WorkItems :
                    \/ AlreadyDone(f) /\ Fetches(f) = 0
                    \/ /\ ~AlreadyDone(f) /\ Fetches(f) >= 1
                       /\ fetch_log[1][f][Fetches(f)] = "Success"
                       /\ payload[f] = "full"
                    \/ /\ ~AlreadyDone(f) /\ ~Got(f, "Success")
                       /\ PriorCount(f) + Fetches(f) = MAX_ATTEMPTS_PER_FIXTURE)
    /\ <>Ended
    /\ (pc[1] = "for" ~> pc[1] = "done")

\* A run has reached its summary after an item with two recorded attempts
\* got a 429 on its one remaining attempt and a new item got three 429s.
TerminationWitness ==
    /\ pc[1] = "done"
    /\ \E f, g \in WorkItems :
          /\ PriorCount(f) = 2 /\ fetch_log[1][f] = <<"RateLimited">>
          /\ PriorCount(g) = 0
          /\ fetch_log[1][g] = <<"RateLimited", "RateLimited", "RateLimited">>

\* The ok records of f in the manifest, and the processes whose current
\* run has fetched f with success.
OkRecords(f) == Len(SelectSeq(manifest, LAMBDA line : line = RecLine(f, "ok", line.attempts)))
Fetchers(f) == {p \in Procs : \E k \in 1..Len(fetch_log[p][f]) : fetch_log[p][f][k] = "Success"}

\* C19: with process 1 alone, however often it runs the script, an item
\* never has more than one ok record and a payload that exists is never
\* fetched again; a second ok record for an item only ever comes from the
\* second process, which passed its skip check before the payload was
\* there, and there are never more than two.
DoubleFetchNeedsTwoProcesses ==
    \A f \in FixtureIds :
        /\ pc[2] = "off" => OkRecords(f) <= 1
        /\ (f \in payloads0[1] /\ pc[1] # "start") => fetch_log[1][f] = <<>>
        /\ OkRecords(f) <= 2
        /\ OkRecords(f) = 2 => 2 \in Fetchers(f) /\ f \notin payloads0[2]

\* Both processes have passed the skip check for item 1001, fetched it
\* with success and written its payload, and the manifest has two ok
\* records for it.
DoubleFetchWitness ==
    /\ Fetchers(1001) = {1, 2}
    /\ pc[1] = "done" /\ pc[2] = "done"
    /\ ok_count[1] = 1 /\ ok_count[2] = 1
    /\ skip_count[1] = 0 /\ skip_count[2] = 0
    /\ OkRecords(1001) = 2
    /\ payload[1001] = "full"

\* C20 as stated: when the loop comes to an item whose payload file is
\* half-written, whose record in the resume map is not ok and which has
\* attempts left, the item is not skipped: it enters the retry loop, where
\* its next step is a fetch.
HalfWrittenIsRefetched ==
    [][(/\ pc[1] = "for" /\ idx[1] <= Len(fixtures[1])
        /\ payload[Current] = "partial"
        /\ ~(done_map[1][Current] # NoRec /\ done_map[1][Current].status = "ok")
        /\ PriorAttempts(done_map[1][Current]) < MAX_ATTEMPTS_PER_FIXTURE
        /\ pc'[1] # "killed") =>
            /\ pc'[1] = "while"
            /\ skip_count' = skip_count
            /\ idx' = idx
      ]_vars

\* C21: whenever the loop is between two items, and so at the summary, the
\* three counters add up to the number of items passed, which at the
\* summary is the length of the work list; each item passed is counted
\* once: skipped when it was already done, ok when it was fetched with
\* success, an error otherwise.
CountConservation ==
    pc[1] \in {"for", "done"} =>
        /\ ok_count[1] + skip_count[1] + err_count[1] = Cardinality(Processed)
        /\ pc[1] = "done" =>
              ok_count[1] + skip_count[1] + err_count[1] = Len(fixtures[1])
        /\ skip_count[1] = Cardinality({f \in Processed : AlreadyDone(f)})
        /\ ok_count[1] = Cardinality({f \in Processed : ~AlreadyDone(f) /\ Got(f, "Success")})
        /\ err_count[1] = Cardinality({f \in Processed : ~AlreadyDone(f) /\ ~Got(f, "Success")})

\* A run of two items has reached its summary with one item counted ok on
\* its third attempt, after a failure and a 429, and the other counted as
\* an error without a fetch, its recorded attempts being used up already.
CountConservationWitness ==
    /\ pc[1] = "done"
    /\ Len(fixtures[1]) = 2
    /\ ok_count[1] = 1 /\ skip_count[1] = 0 /\ err_count[1] = 1
    /\ \E f, g \in WorkItems :
          /\ fetch_log[1][f] = <<"Failed", "RateLimited", "Success">>
          /\ PriorCount(g) = MAX_ATTEMPTS_PER_FIXTURE /\ Fetches(g) = 0 /\ ~AlreadyDone(g)

\* C22: in every state of any sequence of runs and kills, an item with an
\* ok record in the manifest has its payload file, and the file is
\* complete; the step that appends an ok record finds the payload written.
PayloadBeforeOkRecord ==
    /\ [](\A f \in FixtureIds : OkRecords(f) >= 1 => payload[f] = "full")
    /\ [][\A f \in FixtureIds :
              Len(manifest') > Len(manifest) /\ manifest'[Len(manifest')].status = "ok"
                  /\ manifest'[Len(manifest')].fixture_id = f
              => payload[f] = "full" /\ payload'[f] = "full"
         ]_vars

\* The process has been killed with the ok record of one item appended
\* after its payload, and the payload of the next item half-written with
\* no record of it in the manifest.
PayloadBeforeOkRecordWitness ==
    /\ pc[1] = "killed"
    /\ OkRecords(1001) = 1 /\ payload[1001] = "full"
    /\ payload[1002] = "partial" /\ RecordsOf(manifest, 1002) = {}
====
